---- MODULE Spec2Model ----
(***************************************************************************)
(* A model of s3_sample.py: the partition scanner (list_partitions), the   *)
(* gap analyzer (analyze_partitions), the sample walk (get_sample_data)    *)
(* and the Streamlit script body (main) with its session state and the     *)
(* st.cache_data memo tables.                                              *)
(*                                                                         *)
(* Python strings that the code inspects (object keys, captured dates) are *)
(* sequences of one-character strings, so that the regular expressions,    *)
(* strptime and strftime are computed and not assumed.                     *)
(***************************************************************************)
EXTENDS Integers, Sequences, FiniteSets, TLC

VARIABLES
    phase,          \* which specification/step the state belongs to
    pages,          \* the listing the paginator delivers: a sequence of pages
    fault,          \* [at, kind]: the listing request that fails (at = 0: none)
    partitions,     \* what list_partitions handed to its caller in this run
    nreq,           \* listing requests issued by list_partitions in this run
    tokens,         \* the argument of analyze_partitions
    result,         \* what analyze_partitions returned (or that it raised)
    contents,       \* get_sample_data: the list_objects_v2 response
    readable,       \* get_sample_data: the keys whose fetch and decode succeed
    sample,         \* what get_sample_data returned
    lp_cache,       \* st.cache_data table of list_partitions, by (bucket, prefix)
    gs_cache,       \* st.cache_data table of get_sample_data, by (bucket, prefix)
    st_analysis,    \* st.session_state.analysis
    st_target,      \* st.session_state.s3_client / bucket / prefix
    run,            \* what the last execution of main did
    display         \* what the last execution of main rendered

vars == <<phase, pages, fault, partitions, nreq, tokens, result, contents,
          readable, sample, lp_cache, gs_cache, st_analysis, st_target, run,
          display>>

(***************************************************************************)
(* Bounds of the model.                                                    *)
(***************************************************************************)
MaxKeys == 3        \* keys in a listing of the scanner specification
MaxTokens == 3      \* tokens handed to analyze_partitions
MaxCandidates == 3  \* objects in a get_sample_data response

(***************************************************************************)
(* Python values.                                                          *)
(***************************************************************************)
PyNone == [py |-> "None"]
PyList(s) == [py |-> "list", items |-> s]
Raised(e) == [py |-> "raise", exc |-> e]

\* bool(v) for what list_partitions returns: None and the empty list are
\* falsy.
Truthy(v) == v.py = "list" /\ v.items # <<>>

Min(S) == CHOOSE x \in S : \A y \in S : x <= y
Max(S) == CHOOSE x \in S : \A y \in S : x >= y

Digits == <<"0", "1", "2", "3", "4", "5", "6", "7", "8", "9">>
IsDigit(c) == \E i \in 1..10 : Digits[i] = c
DigitVal(c) == (CHOOSE i \in 1..10 : Digits[i] = c) - 1

\* Code points of the characters a captured date can hold: '-' is 45 and
\* '0'..'9' are 48..57.
Ord(c) == IF c = "-" THEN 45 ELSE 48 + DigitVal(c)

\* a < b for Python strings: the first differing character decides, and a
\* proper prefix is smaller.
StrLess(a, b) ==
    \/ \E i \in 1..Len(a) :
          /\ i <= Len(b)
          /\ \A j \in 1..(i - 1) : a[j] = b[j]
          /\ Ord(a[i]) < Ord(b[i])
    \/ /\ Len(a) < Len(b)
       /\ \A j \in 1..Len(a) : a[j] = b[j]

(***************************************************************************)
(* list_partitions: the two patterns and the classification of a key.      *)
(***************************************************************************)
\* re.compile(r'date=(\d{4}-\d{2}-\d{2})'): the literal and the group's shape
\* ("d" stands for \d, "-" for itself).
day_literal == <<"d", "a", "t", "e", "=">>
day_group == <<"d", "d", "d", "d", "-", "d", "d", "-", "d", "d">>

\* re.compile(r'yearmonth=(\d{4}-\d{2})')
month_literal == <<"y", "e", "a", "r", "m", "o", "n", "t", "h", "=">>
month_group == <<"d", "d", "d", "d", "-", "d", "d">>

\* The pattern literal(group) matches key at position i.
MatchesAt(literal, group, key, i) ==
    /\ i + Len(literal) + Len(group) - 1 <= Len(key)
    /\ \A j \in 1..Len(literal) : key[i + j - 1] = literal[j]
    /\ \A j \in 1..Len(group) :
          LET c == key[i + Len(literal) + j - 1]
          IN  IF group[j] = "d" THEN IsDigit(c) ELSE c = group[j]

\* pattern.search(key): the leftmost match. <<>> is None, <<g>> is a match
\* whose group(1) is g.
Search(literal, group, key) ==
    LET hits == {i \in 1..Len(key) : MatchesAt(literal, group, key, i)}
    IN  IF hits = {} THEN <<>>
        ELSE LET i == Min(hits)
             IN  <<SubSeq(key, i + Len(literal), i + Len(literal) + Len(group) - 1)>>

\* KeyTokens with the two patterns tried in the other order.
KeyTokensMonthFirst(key) ==
    LET day_match == Search(day_literal, day_group, key)
        month_match == Search(month_literal, month_group, key)
    IN  IF month_match # <<>> THEN {<<"month", month_match[1]>>}
        ELSE IF day_match # <<>> THEN {<<"day", day_match[1]>>}
        ELSE {}

\* The body of the inner loop: the tokens one key adds to `dates`.
KeyTokens(key) ==
    LET day_match == Search(day_literal, day_group, key)
        month_match == Search(month_literal, month_group, key)
    IN  IF day_match # <<>> THEN {<<"day", day_match[1]>>}
        ELSE IF month_match # <<>> THEN {<<"month", month_match[1]>>}
        ELSE {}

\* `if 'Contents' in page: for obj in page['Contents']: ...`
PageTokens(page) ==
    IF "Contents" \in DOMAIN page
    THEN UNION {KeyTokens(page.Contents[i].Key) : i \in 1..Len(page.Contents)}
    ELSE {}

\* Tuple order of sorted(): ('day', v) < ('month', w) since 'd' < 'm'; equal
\* kinds are ordered by the value strings.
TokenLess(s, t) ==
    \/ s[1] = "day" /\ t[1] = "month"
    \/ s[1] = t[1] /\ StrLess(s[2], t[2])

RECURSIVE SortedList(_)
SortedList(S) ==
    IF S = {} THEN <<>>
    ELSE LET m == CHOOSE x \in S : \A y \in S \ {x} : TokenLess(x, y)
         IN  <<m>> \o SortedList(S \ {m})

\* The `for page in paginator.paginate(...)` loop from request n + 1 on, with
\* `dates` as accumulated so far. Request f.at fails with f.kind.
RECURSIVE Paginate(_, _, _, _)
Paginate(pgs, f, n, dates) ==
    IF n = Len(pgs) THEN [end |-> "exhausted", dates |-> dates, nreq |-> n]
    ELSE IF f.at = n + 1 THEN [end |-> f.kind, dates |-> dates, nreq |-> n + 1]
    ELSE Paginate(pgs, f, n + 1, dates \cup PageTokens(pgs[n + 1]))

\* OnClientError returning what the pages before the failure yielded.
OnClientErrorPartial(dates) == PyList(SortedList(dates))

\* `except ClientError as e: st.error(...); return None`
OnClientError(dates) == PyNone

\* The body of list_partitions (the cache aside): what it returns, or that an
\* exception other than ClientError leaves it, and the requests it issued.
list_partitions(pgs, f) ==
    LET loop == Paginate(pgs, f, 0, {})
    IN  [ret  |-> CASE loop.end = "exhausted" -> PyList(SortedList(loop.dates))
                    [] loop.end = "ClientError" -> OnClientError(loop.dates)
                    [] OTHER -> Raised(loop.end),
         nreq |-> loop.nreq]

(***************************************************************************)
(* datetime: a date at midnight is [year, month, day]; its arithmetic goes *)
(* through the proleptic Gregorian ordinal, as timedelta arithmetic does.  *)
(***************************************************************************)
IsLeap(y) == y % 4 = 0 /\ (y % 100 # 0 \/ y % 400 = 0)

DaysInMonth(y, m) ==
    IF m = 2 THEN (IF IsLeap(y) THEN 29 ELSE 28)
    ELSE IF m \in {4, 6, 9, 11} THEN 30 ELSE 31

\* Days of year y before the first of month m (m = 13: the whole year).
DaysBeforeMonth(y, m) ==
    <<0, 31, 59, 90, 120, 151, 181, 212, 243, 273, 304, 334, 365>>[m]
        + (IF m > 2 /\ IsLeap(y) THEN 1 ELSE 0)

DaysBeforeYear(y) ==
    (y - 1) * 365 + ((y - 1) \div 4) - ((y - 1) \div 100) + ((y - 1) \div 400)

ToOrdinal(dt) == DaysBeforeYear(dt.year) + DaysBeforeMonth(dt.year, dt.month) + dt.day

FromOrdinal(ordinal) ==
    LET n0 == ordinal - 1
        n400 == n0 \div 146097
        r400 == n0 % 146097
        n100 == r400 \div 36524
        r100 == r400 % 36524
        n4 == r100 \div 1461
        r4 == r100 % 1461
        n1 == r4 \div 365
        n == r4 % 365
        y == n400 * 400 + n100 * 100 + n4 * 4 + n1 + 1
    IN  IF n1 = 4 \/ n100 = 4 THEN [year |-> y - 1, month |-> 12, day |-> 31]
        ELSE LET m == Max({k \in 1..12 : DaysBeforeMonth(y, k) <= n})
             IN  [year |-> y, month |-> m, day |-> n - DaysBeforeMonth(y, m) + 1]

\* dt + timedelta(days=k)
PlusDays(dt, k) == FromOrdinal(ToOrdinal(dt) + k)

\* (b - a).days
DaysBetween(a, b) == ToOrdinal(b) - ToOrdinal(a)

\* a < b for datetimes: year, then month, then day.
DtLess(a, b) ==
    \/ a.year < b.year
    \/ a.year = b.year /\ a.month < b.month
    \/ a.year = b.year /\ a.month = b.month /\ a.day < b.day

DtMin(S) == CHOOSE a \in S : \A b \in S \ {a} : DtLess(a, b)
DtMax(S) == CHOOSE a \in S : \A b \in S \ {a} : DtLess(b, a)

\* sorted(list(S)) for a set of datetimes
RECURSIVE SortedDates(_)
SortedDates(S) ==
    IF S = {} THEN <<>>
    ELSE LET a == DtMin(S) IN <<a>> \o SortedDates(S \ {a})

\* The number of two decimal digits at positions i, i + 1 of s, and of four.
Num2(s, i) == DigitVal(s[i]) * 10 + DigitVal(s[i + 1])
Num4(s, i) == Num2(s, i) * 100 + Num2(s, i + 2)

\* Zero-padded decimal, as %m and %d (two digits) and %Y (four) print it.
Pad2(n) == <<Digits[((n \div 10) % 10) + 1], Digits[(n % 10) + 1]>>
Pad4(n) == Pad2(n \div 100) \o Pad2(n % 100)

\* datetime.strptime(s, '%Y-%m-%d') for s of the shape dddd-dd-dd: <<dt>> when
\* it parses, <<>> when it raises ValueError (%m takes 01..12, %d 01..31, and
\* datetime() refuses year 0 and a day the month does not have).
strptime_ymd(s) ==
    LET y == Num4(s, 1)
        m == Num2(s, 6)
        d == Num2(s, 9)
    IN  IF y >= 1 /\ m \in 1..12 /\ d >= 1 /\ d <= DaysInMonth(y, m)
        THEN <<[year |-> y, month |-> m, day |-> d]>>
        ELSE <<>>

\* datetime.strptime(s, '%Y-%m') for s of the shape dddd-dd: day defaults to 1.
strptime_ym(s) ==
    LET y == Num4(s, 1)
        m == Num2(s, 6)
    IN  IF y >= 1 /\ m \in 1..12
        THEN <<[year |-> y, month |-> m, day |-> 1]>>
        ELSE <<>>

\* dt.strftime('%Y-%m-%d') and dt.strftime('%Y-%m')
strftime_ymd(dt) == Pad4(dt.year) \o <<"-">> \o Pad2(dt.month) \o <<"-">> \o Pad2(dt.day)
strftime_ym(dt) == Pad4(dt.year) \o <<"-">> \o Pad2(dt.month)

(***************************************************************************)
(* analyze_partitions                                                      *)
(***************************************************************************)
\* [date for type, date in partitions if type == kind]
DatesOfKind(parts, kind) ==
    LET sel == SelectSeq(parts, LAMBDA t : t[1] = kind)
    IN  [i \in 1..Len(sel) |-> sel[i][2]]

\* The dict analyze_partitions starts from.
initial_result(parts) ==
    [partition_type |-> "none", total_partitions |-> Len(parts)]

\* all_days with the range taken from the days of the month (.day), not from
\* the elapsed days (.days).
all_days_by_day_of_month(start_date, end_date) ==
    {PlusDays(start_date, x) : x \in 0..(end_date.day - start_date.day)}

\* set(start_date + timedelta(days=x) for x in range((end_date - start_date).days + 1))
all_days(start_date, end_date) ==
    {PlusDays(start_date, x) : x \in 0..DaysBetween(start_date, end_date)}

\* set((start_month + timedelta(days=32 * x)).replace(day=1)
\*     for x in range((end_month.year - start_month.year) * 12
\*                    + end_month.month - start_month.month + 1))
all_months(start_month, end_month) ==
    LET count == (end_month.year - start_month.year) * 12
                     + end_month.month - start_month.month + 1
    IN  {[PlusDays(start_month, 32 * x) EXCEPT !.day = 1] : x \in 0..(count - 1)}

\* The `if day_partitions:` branch.
day_branch(res, day_partitions) ==
    LET parsed == [i \in 1..Len(day_partitions) |-> strptime_ymd(day_partitions[i])]
    IN  IF \E i \in 1..Len(parsed) : parsed[i] = <<>> THEN Raised("ValueError")
        ELSE LET day_objects == {parsed[i][1] : i \in 1..Len(parsed)}
                 start_date == DtMin(day_objects)
                 end_date == DtMax(day_objects)
                 missing_days == SortedDates(all_days(start_date, end_date) \ day_objects)
             IN  [partition_type |-> "day",
                  total_partitions |-> res.total_partitions,
                  min_date |-> strftime_ymd(start_date),
                  max_date |-> strftime_ymd(end_date),
                  missing_dates |->
                      [i \in 1..Len(missing_days) |-> strftime_ymd(missing_days[i])]]

\* The `elif month_partitions:` branch.
month_branch(res, month_partitions) ==
    LET parsed == [i \in 1..Len(month_partitions) |-> strptime_ym(month_partitions[i])]
    IN  IF \E i \in 1..Len(parsed) : parsed[i] = <<>> THEN Raised("ValueError")
        ELSE LET month_objects == {parsed[i][1] : i \in 1..Len(parsed)}
                 start_month == DtMin(month_objects)
                 end_month == DtMax(month_objects)
                 missing_months ==
                     SortedDates(all_months(start_month, end_month) \ month_objects)
             IN  [partition_type |-> "month",
                  total_partitions |-> res.total_partitions,
                  min_date |-> strftime_ym(start_month),
                  max_date |-> strftime_ym(end_month),
                  missing_dates |->
                      [i \in 1..Len(missing_months) |-> strftime_ym(missing_months[i])]]

\* select_branch with the Month branch tested first.
select_branch_month_first(res, day_partitions, month_partitions) ==
    IF month_partitions # <<>> THEN month_branch(res, month_partitions)
    ELSE IF day_partitions # <<>> THEN day_branch(res, day_partitions)
    ELSE res

\* The mode selection: Day when there is a Day token, else Month, else neither.
select_branch(res, day_partitions, month_partitions) ==
    IF day_partitions # <<>> THEN day_branch(res, day_partitions)
    ELSE IF month_partitions # <<>> THEN month_branch(res, month_partitions)
    ELSE res

analyze_partitions(parts) ==
    select_branch(initial_result(parts),
                  DatesOfKind(parts, "day"), DatesOfKind(parts, "month"))

(***************************************************************************)
(* get_file_extension and get_sample_data                                  *)
(***************************************************************************)
UpperCase == <<"A", "B", "C", "D", "E", "F", "G", "H", "I", "J", "K", "L", "M",
               "N", "O", "P", "Q", "R", "S", "T", "U", "V", "W", "X", "Y", "Z">>
LowerCase == <<"a", "b", "c", "d", "e", "f", "g", "h", "i", "j", "k", "l", "m",
               "n", "o", "p", "q", "r", "s", "t", "u", "v", "w", "x", "y", "z">>

\* s.lower()
Lower(s) ==
    [i \in 1..Len(s) |->
        IF \E k \in 1..26 : UpperCase[k] = s[i]
        THEN LowerCase[CHOOSE k \in 1..26 : UpperCase[k] = s[i]]
        ELSE s[i]]

\* s.endswith(suffix)
EndsWith(s, suffix) ==
    /\ Len(suffix) <= Len(s)
    /\ SubSeq(s, Len(s) - Len(suffix) + 1, Len(s)) = suffix

\* The file type of a key, "None" when get_file_extension returns None.
get_file_extension(file_key) ==
    LET lower_key == Lower(file_key)
    IN  IF EndsWith(lower_key, <<".", "c", "s", "v">>) THEN "csv"
        ELSE IF EndsWith(lower_key, <<".", "p", "a", "r", "q", "u", "e", "t">>)
             THEN "parquet"
        ELSE IF EndsWith(lower_key, <<".", "j", "s", "o", "n">>) THEN "json"
        ELSE "None"

\* `return None, None, None`
NoSample == [df |-> PyNone, file_type |-> "None", file_key |-> PyNone]

\* `return df.head(), file_type, file_key`: the preview is named by the object
\* it was decoded from.
SampleOf(file_type, file_key) ==
    [df |-> [py |-> "DataFrame", source |-> file_key],
     file_type |-> file_type,
     file_key |-> [py |-> "str", chars |-> file_key]]

\* OnReadError giving up at the first candidate that cannot be read.
OnReadErrorGivesUp(rest) == NoSample

\* What happens to a supported candidate whose get_object or decode raises:
\* `except Exception as e: st.write(...); continue` goes on with the next one.
OnReadError(rest) == rest

\* `for obj in response['Contents']:` from index i on; ok holds the keys whose
\* get_object and pandas decode succeed.
RECURSIVE WalkCandidates(_, _, _)
WalkCandidates(objs, ok, i) ==
    IF i > Len(objs) THEN NoSample
    ELSE LET file_key == objs[i].Key
             file_type == get_file_extension(file_key)
         IN  IF file_type # "None"
             THEN IF file_key \in ok THEN SampleOf(file_type, file_key)
                  ELSE OnReadError(WalkCandidates(objs, ok, i + 1))
             ELSE WalkCandidates(objs, ok, i + 1)

\* The body of get_sample_data (the cache aside). listing is the outcome of
\* the list_objects_v2 request: "ok" or the exception it raises.
get_sample_data(listing, response, ok) ==
    IF listing = "ClientError" THEN NoSample
    ELSE IF listing # "ok" THEN Raised(listing)
    ELSE IF "Contents" \notin DOMAIN response THEN NoSample
    ELSE WalkCandidates(response.Contents, ok, 1)

(***************************************************************************)
(* st.cache_data: a table from the hashed arguments (bucket, prefix; the   *)
(* client, named _s3_client, is not hashed) to the value the function      *)
(* returned. A call that raises stores nothing.                            *)
(***************************************************************************)
Absent == [py |-> "absent"]

\* list_partitions as main calls it: [ret, nreq, cache].
cached_list_partitions(cache, key, pgs, f) ==
    IF cache[key] # Absent
    THEN [ret |-> cache[key], nreq |-> 0, cache |-> cache, hit |-> TRUE]
    ELSE LET r == list_partitions(pgs, f)
         IN  [ret |-> r.ret, nreq |-> r.nreq, hit |-> FALSE,
              cache |-> IF r.ret.py = "raise" THEN cache
                        ELSE [cache EXCEPT ![key] = r.ret]]

\* get_sample_data as main calls it: [ret, cache].
cached_get_sample_data(cache, key, listing, response, ok) ==
    IF cache[key] # Absent
    THEN [ret |-> cache[key], cache |-> cache]
    ELSE LET r == get_sample_data(listing, response, ok)
         IN  [ret |-> r,
              cache |-> IF "py" \in DOMAIN r THEN cache
                        ELSE [cache EXCEPT ![key] = r]]

(***************************************************************************)
(* parse_s3_path                                                           *)
(***************************************************************************)
\* s.replace(old, ""): every occurrence of old is removed, left to right.
RECURSIVE Remove(_, _)
Remove(s, old) ==
    IF Len(s) < Len(old) THEN s
    ELSE IF SubSeq(s, 1, Len(old)) = old
         THEN Remove(SubSeq(s, Len(old) + 1, Len(s)), old)
         ELSE <<s[1]>> \o Remove(Tail(s), old)

\* parts = s.split("/"); parts[0] is what precedes the first "/" and
\* "/".join(parts[1:]) is what follows it.
parse_s3_path(s3_path) ==
    LET s == Remove(s3_path, <<"s", "3", ":", "/", "/">>)
        cuts == {i \in 1..Len(s) : s[i] = "/"}
    IN  IF cuts = {} THEN [bucket |-> s, prefix |-> <<>>]
        ELSE [bucket |-> SubSeq(s, 1, Min(cuts) - 1),
              prefix |-> SubSeq(s, Min(cuts) + 1, Len(s))]

(***************************************************************************)
(* Inputs of the model: object keys, listings, tokens.                     *)
(***************************************************************************)
Ymd(y, m, d) == Pad4(y) \o <<"-">> \o Pad2(m) \o <<"-">> \o Pad2(d)
Ym(y, m) == Pad4(y) \o <<"-">> \o Pad2(m)
File(name) == <<"/", name, ".", "c", "s", "v">>

\* Object keys of the scanner specification, in the order S3 lists them
\* (ascending by bytes).
ScanKeys ==
    << day_literal \o Ymd(2024, 1, 1) \o File("a"),
       day_literal \o Ymd(2024, 1, 1) \o File("b"),
       day_literal \o Ymd(2024, 1, 5) \o <<"/">> \o day_literal \o Ymd(2024, 1, 1) \o File("a"),
       <<"l", "o", "g", "s", "/", "r", "e", "a", "d", "m", "e", ".", "t", "x", "t">>,
       <<"u", "p">> \o day_literal \o Ymd(2024, 13, 40) \o File("a"),
       month_literal \o Ymd(2024, 1, 5) \o File("a"),
       month_literal \o Ym(2024, 1) \o File("a"),
       month_literal \o Ym(2024, 2) \o <<"/">> \o day_literal \o Ymd(2024, 1, 5) \o File("a"),
       month_literal \o <<"2", "0", "2", "4", "-", "2">> \o File("a") >>

\* The subsequence of u at the indices in I, in ascending order.
RECURSIVE Pick(_, _)
Pick(u, I) ==
    IF I = {} THEN <<>>
    ELSE LET i == Min(I) IN <<u[i]>> \o Pick(u, I \ {i})

\* The subsets of S of at most k elements.
RECURSIVE UpTo(_, _)
UpTo(S, k) ==
    IF k = 0 THEN {{}}
    ELSE LET P == UpTo(S, k - 1) IN P \cup {s \cup {x} : s \in P, x \in S}

\* One page of a list_objects_v2 listing: S3 leaves 'Contents' out of a page
\* without keys.
Page(keys) ==
    IF keys = <<>> THEN [KeyCount |-> 0]
    ELSE [KeyCount |-> Len(keys), Contents |-> [i \in 1..Len(keys) |-> [Key |-> keys[i]]]]

\* The pages of a listing of keys, size keys to a page (at least one page).
RECURSIVE Paged(_, _)
Paged(keys, size) ==
    IF Len(keys) <= size THEN <<Page(keys)>>
    ELSE <<Page(SubSeq(keys, 1, size))>> \o Paged(SubSeq(keys, size + 1, Len(keys)), size)

\* The keys of a listing, all pages together.
RECURSIVE KeysOf(_)
KeysOf(pgs) ==
    IF pgs = <<>> THEN <<>>
    ELSE (IF "Contents" \in DOMAIN Head(pgs)
          THEN [i \in 1..Len(Head(pgs).Contents) |-> Head(pgs).Contents[i].Key]
          ELSE <<>>) \o KeysOf(Tail(pgs))

NoFault == [at |-> 0, kind |-> "none"]

\* The ways a listing of these pages can fail: not at all, or at one request,
\* with botocore's ClientError (access denied, no such bucket) or with an
\* error that is no ClientError (the endpoint cannot be reached).
Faults(pgs) ==
    {NoFault} \cup {[at |-> k, kind |-> e] :
                      k \in 1..Len(pgs), e \in {"ClientError", "EndpointConnectionError"}}

\* Tokens of the analyzer specification: days around a leap day and a year
\* end, months over more than two years, and captured values that are no
\* calendar date or month.
DayValues ==
    {Ymd(2023, 12, 30), Ymd(2023, 12, 31), Ymd(2024, 1, 1), Ymd(2024, 1, 5),
     Ymd(2024, 2, 27), Ymd(2024, 2, 28), Ymd(2024, 2, 29), Ymd(2024, 3, 1)}
BadDayValues == {Ymd(2024, 13, 1), Ymd(2024, 1, 0), Ymd(2024, 4, 31), Ymd(2023, 2, 29)}
MonthValues ==
    {Ym(2023, 1), Ym(2023, 2), Ym(2023, 11), Ym(2023, 12), Ym(2024, 1), Ym(2024, 2),
     Ym(2024, 4), Ym(2024, 8), Ym(2024, 9), Ym(2024, 10), Ym(2025, 1)}
BadMonthValues == {Ym(2024, 13), Ym(2024, 0)}

TokenUniverse ==
    {<<"day", v>> : v \in DayValues \cup BadDayValues}
        \cup {<<"month", v>> : v \in MonthValues \cup BadMonthValues}

\* Object keys of the sample specification, in listing order.
SampleKeys ==
    << <<"a", ".", "t", "x", "t">>,
       <<"b", ".", "c", "s", "v">>,
       <<"c", ".", "P", "A", "R", "Q", "U", "E", "T">>,
       <<"d", ".", "c", "s", "v", ".", "g", "z">>,
       <<"e", ".", "j", "s", "o", "n">>,
       <<"f", "/", "c", "s", "v">> >>

ListingOutcomes == {"ok", "ClientError", "EndpointConnectionError"}

\* What the user can type as the S3 path.
S3Path1 == <<"s", "3", ":", "/", "/", "b", "/", "p">>
S3Path2 == <<"c", "/", "q", "/", "r">>
S3Paths == {S3Path1, S3Path2}

Targets == {parse_s3_path(p) : p \in S3Paths}

\* What a prefix can hold when the user presses Analyze.
SessionListings ==
    { <<Page(<<ScanKeys[1]>>), Page(<<ScanKeys[3]>>)>>,
      <<Page(<<ScanKeys[7], month_literal \o Ym(2024, 4) \o File("a")>>)>>,
      <<Page(<<ScanKeys[4]>>)>>,
      <<Page(<<>>)>>,
      <<Page(<<ScanKeys[5]>>)>> }

(***************************************************************************)
(* The initial values of the variables a specification does not use.       *)
(***************************************************************************)
ScanIdle ==
    /\ pages = <<>>
    /\ fault = NoFault
    /\ partitions = PyNone
    /\ nreq = 0

AnalyzeIdle ==
    /\ tokens = <<>>
    /\ result = PyNone

SampleIdle ==
    /\ contents = Page(<<>>)
    /\ readable = {}
    /\ sample = PyNone

\* `if 'analysis' not in st.session_state: st.session_state.analysis = None`,
\* and empty st.cache_data tables.
SessionIdle ==
    /\ lp_cache = [t \in Targets |-> Absent]
    /\ gs_cache = [t \in Targets |-> Absent]
    /\ st_analysis = PyNone
    /\ st_target = PyNone
    /\ run = [go |-> FALSE, hit |-> FALSE, analyzed |-> FALSE, stored |-> FALSE]
    /\ display = [shows |-> "nothing"]

(***************************************************************************)
(* The scanner alone: list_partitions on a listing.                        *)
(***************************************************************************)
ScanInit ==
    /\ phase = "scan"
    /\ \E I \in UpTo(1..Len(ScanKeys), MaxKeys), size \in 1..MaxKeys :
          pages = Paged(Pick(ScanKeys, I), size)
    /\ fault = NoFault
    /\ partitions = PyNone
    /\ nreq = 0
    /\ AnalyzeIdle /\ SampleIdle /\ SessionIdle

Scan ==
    /\ phase = "scan"
    /\ \E f \in Faults(pages) :
          LET r == list_partitions(pages, f)
          IN  /\ fault' = f
              /\ partitions' = r.ret
              /\ nreq' = r.nreq
    /\ phase' = "scanned"
    /\ UNCHANGED <<pages, tokens, result, contents, readable, sample, lp_cache,
                   gs_cache, st_analysis, st_target, run, display>>

ScanNext == Scan
SpecScan == ScanInit /\ [][ScanNext]_vars

(***************************************************************************)
(* The analyzer alone: analyze_partitions on a sorted token list.          *)
(***************************************************************************)
AnalyzeInit ==
    /\ phase = "analyze"
    /\ \E S \in UpTo(TokenUniverse, MaxTokens) : tokens = SortedList(S)
    /\ result = PyNone
    /\ ScanIdle /\ SampleIdle /\ SessionIdle

Analyze ==
    /\ phase = "analyze"
    /\ result' = analyze_partitions(tokens)
    /\ phase' = "analyzed"
    /\ UNCHANGED <<pages, fault, partitions, nreq, tokens, contents, readable,
                   sample, lp_cache, gs_cache, st_analysis, st_target, run, display>>

AnalyzeNext == Analyze
SpecAnalyze == AnalyzeInit /\ [][AnalyzeNext]_vars

(***************************************************************************)
(* The sample walk alone: get_sample_data on a response.                   *)
(***************************************************************************)
SampleInit ==
    /\ phase = "sample"
    /\ \E I \in UpTo(1..Len(SampleKeys), MaxCandidates) :
          /\ contents = Page(Pick(SampleKeys, I))
          /\ readable \in SUBSET {SampleKeys[i] : i \in I}
    /\ sample = PyNone
    /\ ScanIdle /\ AnalyzeIdle /\ SessionIdle

Sample ==
    /\ phase = "sample"
    /\ sample' = get_sample_data("ok", contents, readable)
    /\ phase' = "sampled"
    /\ UNCHANGED <<pages, fault, partitions, nreq, tokens, result, contents,
                   readable, lp_cache, gs_cache, st_analysis, st_target, run, display>>

\* The list_objects_v2 request itself fails.
SampleListingFails ==
    /\ phase = "sample"
    /\ \E e \in ListingOutcomes \ {"ok"} : sample' = get_sample_data(e, contents, readable)
    /\ phase' = "unlisted"
    /\ UNCHANGED <<pages, fault, partitions, nreq, tokens, result, contents,
                   readable, lp_cache, gs_cache, st_analysis, st_target, run, display>>

SampleNext == Sample \/ SampleListingFails
SpecSample == SampleInit /\ [][SampleNext]_vars

(***************************************************************************)
(* main: one execution of the script. The widgets' values and what S3      *)
(* answers are the inputs.                                                 *)
(***************************************************************************)
NotCalled == [py |-> "not called"]

\* Lines 157-210: what the script renders. aborted: an exception left main
\* before it got here; smp: what get_sample_data returned, if it was called.
Rendered(aborted, analysis, smp) ==
    IF aborted THEN [shows |-> "exception"]
    ELSE IF analysis = PyNone THEN [shows |-> "nothing"]
    ELSE IF analysis.partition_type = "none" THEN [shows |-> "no date partitions found"]
    ELSE [shows |-> "analysis", analysis |-> analysis, sample |-> smp.ret]

\* `if partitions:` and the assignments to st.session_state under it:
\* whether analyze_partitions' result is stored.
Stores(go, scan, analysis) ==
    go /\ Truthy(scan.ret) /\ "py" \notin DOMAIN analysis

Main(analyze_button, in, pgs, f, s) ==
    LET go == analyze_button /\ in.access_key # "" /\ in.secret_key # ""
                  /\ in.s3_path # <<>>
    IN  /\ phase = "session"
        /\ \E scan \in {IF go
                        THEN cached_list_partitions(lp_cache, parse_s3_path(in.s3_path), pgs, f)
                        ELSE [ret |-> NotCalled, nreq |-> 0, hit |-> FALSE,
                              cache |-> lp_cache]} :
           \E analysis \in {IF go /\ Truthy(scan.ret)
                            THEN analyze_partitions(scan.ret.items)
                            ELSE NotCalled} :
           \E target \in {IF Stores(go, scan, analysis)
                          THEN [s3_client |-> [access_key |-> in.access_key,
                                               secret_key |-> in.secret_key],
                                bucket |-> parse_s3_path(in.s3_path).bucket,
                                prefix |-> parse_s3_path(in.s3_path).prefix]
                          ELSE st_target} :
           \E held \in {IF Stores(go, scan, analysis) THEN analysis ELSE st_analysis} :
           \E aborted \in {scan.ret.py = "raise" \/ analysis = Raised("ValueError")} :
           \E smp \in {IF ~aborted /\ held # PyNone /\ held.partition_type # "none"
                       THEN cached_get_sample_data(
                                gs_cache, [bucket |-> target.bucket, prefix |-> target.prefix],
                                s.listing, s.response, s.ok)
                       ELSE [ret |-> NotCalled, cache |-> gs_cache]} :
              /\ run' = [go |-> go, hit |-> scan.hit,
                         analyzed |-> go /\ Truthy(scan.ret),
                         stored |-> Stores(go, scan, analysis)]
              /\ IF go
                 THEN /\ pages' = pgs
                      /\ fault' = f
                      /\ partitions' = scan.ret
                      /\ nreq' = scan.nreq
                 ELSE UNCHANGED <<pages, fault, partitions, nreq>>
              /\ lp_cache' = scan.cache
              /\ st_analysis' = held
              /\ st_target' = target
              /\ gs_cache' = smp.cache
              /\ display' = Rendered(aborted, held, smp)
        /\ UNCHANGED <<phase, tokens, result, contents, readable, sample>>

\* The values of the sidebar's three text inputs: all filled in, or one of
\* them left empty.
CompleteInputs ==
    {[access_key |-> "AKIA", secret_key |-> "secret", s3_path |-> p] : p \in S3Paths}
IncompleteInputs ==
    {[access_key |-> "", secret_key |-> "secret", s3_path |-> S3Path1],
     [access_key |-> "AKIA", secret_key |-> "", s3_path |-> S3Path1],
     [access_key |-> "AKIA", secret_key |-> "secret", s3_path |-> <<>>]}

\* What S3 answers to get_sample_data: the listing fails, the prefix's first
\* object cannot be read, or it can.
SampleAnswers ==
    {[listing |-> "ClientError", response |-> Page(<<>>), ok |-> {}],
     [listing |-> "ok", response |-> Page(<<SampleKeys[2]>>), ok |-> {}],
     [listing |-> "ok", response |-> Page(<<SampleKeys[2]>>), ok |-> {SampleKeys[2]}]}

\* The user presses Analyze with the three inputs filled in.
PressAnalyze ==
    \E in \in CompleteInputs, pgs \in SessionListings, s \in SampleAnswers :
       \E f \in Faults(pgs) : Main(TRUE, in, pgs, f, s)

\* The user presses Analyze with an input left empty: line 144 is false.
PressAnalyzeIncomplete ==
    \E in \in IncompleteInputs, s \in SampleAnswers :
       Main(TRUE, in, <<Page(<<>>)>>, NoFault, s)

\* Any other interaction reruns the script with the button not pressed.
Rerun ==
    \E in \in CompleteInputs, s \in SampleAnswers :
       Main(FALSE, in, <<Page(<<>>)>>, NoFault, s)

Init ==
    /\ phase = "session"
    /\ ScanIdle /\ AnalyzeIdle /\ SampleIdle /\ SessionIdle

Next == PressAnalyze \/ PressAnalyzeIncomplete \/ Rerun
Spec == Init /\ [][Next]_vars

(***************************************************************************)
(* Properties. The expected values are stated from the calendar and from   *)
(* the key text, not through the operators that model the code.            *)
(***************************************************************************)
\* The ascending sequence of a finite set of integers.
RECURSIVE Ascending(_)
Ascending(S) ==
    IF S = {} THEN <<>>
    ELSE <<Min(S)>> \o Ascending(S \ {Min(S)})

ValuesOfKind(parts, kind) == {parts[i][2] : i \in {j \in 1..Len(parts) : parts[j][1] = kind}}

\* A captured dddd-dd-dd (dddd-dd) names a calendar date (month).
IsCalendarMonth(v) == Num4(v, 1) >= 1 /\ Num2(v, 6) \in 1..12
IsCalendarDate(v) ==
    /\ IsCalendarMonth(v)
    /\ Num2(v, 9) >= 1
    /\ Num2(v, 9) <= DaysInMonth(Num4(v, 1), Num2(v, 6))

\* Months counted from year 0: 12 to a year, December followed by January.
MonthIndex(v) == Num4(v, 1) * 12 + Num2(v, 6) - 1
MonthOfIndex(k) == Ym(k \div 12, (k % 12) + 1)

ExpectedMissingMonths(observed) ==
    LET idx == {MonthIndex(v) : v \in observed}
        gaps == Ascending({k \in Min(idx)..Max(idx) : k \notin idx})
    IN  [i \in 1..Len(gaps) |-> MonthOfIndex(gaps[i])]

\* Days as the number yyyymmdd, which orders dates chronologically.
DayNumber(v) == Num4(v, 1) * 10000 + Num2(v, 6) * 100 + Num2(v, 9)
DayOfNumber(n) == Ymd(n \div 10000, (n \div 100) % 100, n % 100)

ExpectedMissingDays(observed) ==
    LET nums == {DayNumber(v) : v \in observed}
        dates == {y * 10000 + m * 100 + d :
                     y \in (Min(nums) \div 10000)..(Max(nums) \div 10000),
                     m \in 1..12, d \in 1..31}
        gaps == Ascending({n \in dates :
                              /\ n > Min(nums) /\ n < Max(nums)
                              /\ n \notin nums
                              /\ IsCalendarDate(DayOfNumber(n))})
    IN  [i \in 1..Len(gaps) |-> DayOfNumber(gaps[i])]

IsDict(r) == "py" \notin DOMAIN r

\* C1: in Month mode, for valid year-month tokens, missing_dates is exactly
\* the calendar months from the least to the greatest observed month that are
\* not observed, ascending, as YYYY-MM, however long the range.
C1_MissingMonthsExact ==
    (/\ phase = "analyzed"
     /\ ValuesOfKind(tokens, "day") = {}
     /\ ValuesOfKind(tokens, "month") # {}
     /\ \A v \in ValuesOfKind(tokens, "month") : IsCalendarMonth(v))
    => /\ IsDict(result)
       /\ result.partition_type = "month"
       /\ result.missing_dates = ExpectedMissingMonths(ValuesOfKind(tokens, "month"))

\* C2: in Day mode, min_date and max_date are the earliest and latest observed
\* dates and missing_dates is exactly the calendar dates from min to max that
\* are not observed, ascending, as YYYY-MM-DD; one Day token gives min = max
\* and nothing missing.
C2_DayRangeExact ==
    (/\ phase = "analyzed"
     /\ ValuesOfKind(tokens, "day") # {}
     /\ \A v \in ValuesOfKind(tokens, "day") : IsCalendarDate(v))
    => LET days == ValuesOfKind(tokens, "day")
           nums == {DayNumber(v) : v \in days}
       IN  /\ IsDict(result)
           /\ result.partition_type = "day"
           /\ result.min_date = DayOfNumber(Min(nums))
           /\ result.max_date = DayOfNumber(Max(nums))
           /\ result.missing_dates = ExpectedMissingDays(days)
           /\ Cardinality(days) = 1 =>
                 /\ result.min_date = result.max_date
                 /\ result.missing_dates = <<>>

\* A Day range over the leap day and a month end, with two days missing.
C2_Witness ==
    /\ phase = "analyzed"
    /\ IsDict(result)
    /\ result.partition_type = "day"
    /\ result.min_date = Ymd(2024, 2, 27)
    /\ result.max_date = Ymd(2024, 3, 1)
    /\ result.missing_dates = <<Ymd(2024, 2, 28), Ymd(2024, 2, 29)>>

\* C5: total_partitions counts all tokens passed in, in every mode; with Day
\* and Month tokens together the type is Day and min, max and missing are
\* those of the Day tokens alone.
C5_DayPrecedence ==
    phase = "analyzed" =>
       LET days == ValuesOfKind(tokens, "day")
           day_only == analyze_partitions(SelectSeq(tokens, LAMBDA t : t[1] = "day"))
       IN  /\ IsDict(result) => result.total_partitions = Len(tokens)
           /\ (days # {} /\ \A v \in days : IsCalendarDate(v)) => IsDict(result)
           /\ (IsDict(result) /\ days # {} /\ ValuesOfKind(tokens, "month") # {}) =>
                 /\ result.partition_type = "day"
                 /\ result.min_date = day_only.min_date
                 /\ result.max_date = day_only.max_date
                 /\ result.missing_dates = day_only.missing_dates
                 /\ result.missing_dates = ExpectedMissingDays(days)

\* Two Day tokens and a Month token analyzed together.
C5_Witness ==
    /\ phase = "analyzed"
    /\ Cardinality(ValuesOfKind(tokens, "day")) = 2
    /\ Cardinality(ValuesOfKind(tokens, "month")) = 1
    /\ IsDict(result)
    /\ result.partition_type = "day"
    /\ result.total_partitions = 3
    /\ result.missing_dates # <<>>

\* C10: analyze_partitions returns a result for every token list the scanner
\* can emit, whatever digits the patterns captured.
C10_AnalyzerTotal == phase = "analyzed" => IsDict(result)

\* w occurs in key at position i.
OccursAt(key, i, w) == i + Len(w) - 1 <= Len(key) /\ SubSeq(key, i, i + Len(w) - 1) = w

\* v is dddd-dd-dd (days = TRUE) or dddd-dd.
Shaped(v, days) ==
    /\ Len(v) = (IF days THEN 10 ELSE 7)
    /\ \A i \in 1..Len(v) : IF i \in {5, 8} THEN v[i] = "-" ELSE IsDigit(v[i])

\* The places of key where `date=YYYY-MM-DD` (`yearmonth=YYYY-MM`) stands.
DayPlaces(key) ==
    {i \in 1..Len(key) : /\ OccursAt(key, i, day_literal)
                         /\ i + 14 <= Len(key)
                         /\ Shaped(SubSeq(key, i + 5, i + 14), TRUE)}
MonthPlaces(key) ==
    {i \in 1..Len(key) : /\ OccursAt(key, i, month_literal)
                         /\ i + 16 <= Len(key)
                         /\ Shaped(SubSeq(key, i + 10, i + 16), FALSE)}

\* The token the claim gives a key (as a set: no token is the empty set).
ExpectedTokens(key) ==
    IF DayPlaces(key) # {}
    THEN {<<"day", SubSeq(key, Min(DayPlaces(key)) + 5, Min(DayPlaces(key)) + 14)>>}
    ELSE IF MonthPlaces(key) # {}
         THEN {<<"month", SubSeq(key, Min(MonthPlaces(key)) + 10, Min(MonthPlaces(key)) + 16)>>}
         ELSE {}

\* Kind, then value: Day before Month, and values by their digits.
TokenRank(t) ==
    IF t[1] = "day" THEN DayNumber(t[2])
    ELSE 100000000 + Num4(t[2], 1) * 100 + Num2(t[2], 6)

\* C4: every key of every page gives a Day token if the Day pattern matches
\* anywhere in it, else a Month token if the Month pattern matches, else
\* nothing; the result holds each distinct token once, sorted by kind then
\* value, whatever the paging.
C4_ScanClassifies ==
    (phase = "scanned" /\ fault.at = 0) =>
       /\ partitions.py = "list"
       /\ nreq = Len(pages)
       /\ {partitions.items[i] : i \in 1..Len(partitions.items)}
             = UNION {ExpectedTokens(KeysOf(pages)[i]) : i \in 1..Len(KeysOf(pages))}
       /\ \A i \in 1..(Len(partitions.items) - 1) :
             TokenRank(partitions.items[i]) < TokenRank(partitions.items[i + 1])

\* Three pages of one key each: a Day key, a Month key and a key matching
\* both patterns give two Day tokens and one Month token.
C4_Witness ==
    /\ phase = "scanned"
    /\ fault.at = 0
    /\ Len(pages) = 3
    /\ KeysOf(pages) = <<ScanKeys[1], ScanKeys[7], ScanKeys[8]>>
    /\ partitions = PyList(<< <<"day", Ymd(2024, 1, 1)>>, <<"day", Ymd(2024, 1, 5)>>,
                              <<"month", Ym(2024, 1)>> >>)

\* The extension of a key: what follows its last ".", in lower case.
Extension(key) ==
    LET dots == {i \in 1..Len(key) : key[i] = "."}
    IN  IF dots = {} THEN <<>> ELSE Lower(SubSeq(key, Max(dots) + 1, Len(key)))

SupportedExtensions ==
    {<<"c", "s", "v">>, <<"p", "a", "r", "q", "u", "e", "t">>, <<"j", "s", "o", "n">>}

\* C8: get_sample_data returns the preview of the first candidate, in listing
\* order, that has a supported extension and can be read, skipping the others,
\* and returns no sample only when no candidate is left.
C8_FirstReadableCandidate ==
    phase = "sampled" =>
       LET keys == KeysOf(<<contents>>)
           good == {i \in 1..Len(keys) :
                       Extension(keys[i]) \in SupportedExtensions /\ keys[i] \in readable}
       IN  /\ IsDict(sample)
           /\ IF good = {} THEN sample = NoSample
              ELSE /\ sample.file_key = [py |-> "str", chars |-> keys[Min(good)]]
                   /\ sample.df = [py |-> "DataFrame", source |-> keys[Min(good)]]
                   /\ <<sample.file_type>> \in {<<"csv">>, <<"parquet">>, <<"json">>}

\* An unsupported key and a supported key that cannot be read are skipped,
\* and the third candidate is previewed.
C8_Witness ==
    /\ phase = "sampled"
    /\ KeysOf(<<contents>>) = <<SampleKeys[1], SampleKeys[2], SampleKeys[3]>>
    /\ readable = {SampleKeys[3]}
    /\ sample = SampleOf("parquet", SampleKeys[3])

\* C3: when a listing request fails, on the first page or a later one,
\* list_partitions returns the failure and no token list, issues no request
\* after the failed one, and the run neither calls analyze_partitions nor
\* stores a result.
C3_FailedListing ==
    (run.go /\ ~run.hit /\ fault.at >= 1) =>
       /\ partitions = (IF fault.kind = "ClientError" THEN PyNone ELSE Raised(fault.kind))
       /\ nreq = fault.at
       /\ ~run.analyzed
       /\ ~run.stored

\* The second page fails after the first page yielded a token.
C3_Witness ==
    /\ run.go
    /\ ~run.hit
    /\ fault = [at |-> 2, kind |-> "ClientError"]
    /\ PageTokens(pages[1]) # {}
    /\ partitions = PyNone
    /\ nreq = 2

\* C6: what a run obtains from list_partitions is the classification of the
\* listing as it stands at that run (or its failure), whatever earlier runs
\* saw.
C6_ScanIsOfCurrentListing ==
    run.go => partitions = list_partitions(pages, fault).ret

\* C7: a run whose scan finds no partition key yields the result with
\* partition type none and count 0 and nothing else, and the caller is given
\* it.
C7_NoPartitionsResult ==
    (run.go /\ partitions = PyList(<<>>)) =>
       /\ st_analysis = [partition_type |-> "none", total_partitions |-> 0]
       /\ display = [shows |-> "no date partitions found"]

\* C9: after an Analyze request, an analysis is displayed only if it is the
\* result of that request.
C9_DisplayedIsOfLastRequest ==
    (run.go /\ display.shows = "analysis") =>
       /\ run.stored
       /\ display.analysis = analyze_partitions(partitions.items)

====
